---- MODULE Spec2Model ----
(***************************************************************************)
(* A model of the more_ranges crate: the iterators of RangeFromExclusive,  *)
(* RangeFromExclusiveToInclusive<T> and RangeFromExclusiveToExclusive<T>   *)
(* (src/src/impl_iterator.rs; src/src/lib.rs holds the same code inline),  *)
(* their use as indices of slices, strs, Vecs, Strings and CStrs           *)
(* (src/src/impl_index.rs), their bounds (src/src/impl_range_bounds.rs)   *)
(* and their serde implementations (src/src/impl_serde.rs).                *)
(*                                                                         *)
(* The element type T is a signed integer of Bits bits.  Two targets are   *)
(* modelled, as the crate is generic over T: Step:                         *)
(*   "narrow": usize is as wide as T (u64/i64/usize/isize on a 64-bit      *)
(*             target), so every step count between two values fits usize; *)
(*   "wide":   usize is one bit narrower than T (u128/i128 on any target,  *)
(*             u64/i64 on a 32-bit one), so Step::steps_between overflows  *)
(*             for distant values and answers None.                        *)
(*                                                                         *)
(* Option<X> is a sequence: None is << >>, Some(x) is <<x>>.               *)
(***************************************************************************)
EXTENDS Integers, Sequences, FiniteSets, TLC

VARIABLES kind, ty, start, end, op, arg, ret, prevStart, prevEnd,
          sawNone, after, ub, panicked, orig, trace, traceBack,
          seqKind, seq, prevSeq, res, borrowed, wire, decoded

vars == <<kind, ty, start, end, op, arg, ret, prevStart, prevEnd,
          sawNone, after, ub, panicked, orig, trace, traceBack,
          seqKind, seq, prevSeq, res, borrowed, wire, decoded>>

\* The state of an indexing program and of a bounds query (see below).
indexVars == <<seqKind, seq, prevSeq, res, borrowed>>

\* The state of a serde program: the serialized form and what
\* deserializing it gave (see below).
serdeVars == <<wire, decoded>>

\* Nothing was serialized and nothing deserialized.
Unwritten == [form |-> "none", name |-> "", len |-> 0, body |-> << >>]
Undecoded ==
    [ok |-> FALSE, err |-> "", field |-> "", n |-> 0, start |-> 0, end |-> 0]

NoWire ==
    /\ wire = Unwritten
    /\ decoded = Undecoded

\* Width in bits of the element type T of the model.
Bits == 3

Kinds == {"inclusive", "exclusive"}
Targets == {"narrow", "wide"}

\* T::MIN, T::MAX and the values of T.
TMin == -(2 ^ (Bits - 1))
TMax == 2 ^ (Bits - 1) - 1
T == TMin .. TMax

\* usize::MAX on the target, and the values of usize.
UsizeMax(t) == IF t = "narrow" THEN 2 ^ Bits - 1 ELSE 2 ^ (Bits - 1) - 1
Usize(t) == 0 .. UsizeMax(t)

None == << >>
Some(x) == <<x>>

\* Option's derived ordering, None < Some(_): `o > Some(k)` and `o <= Some(k)`.
OptGt(o, k) == o # None /\ o[1] > k
OptLe(o, k) == o = None \/ o[1] <= k

(***************************************************************************)
(* core::iter::Step for the integer type T, as the iterators call it.      *)
(***************************************************************************)
\* Step::steps_between(&a, &b): Some(b - a) when a <= b and the count fits
\* usize, None otherwise (a > b, or overflow of usize).
steps_between(t, a, b) ==
    IF a <= b /\ b - a <= UsizeMax(t) THEN Some(b - a) ELSE None

\* Step::forward_checked(a, n): None when a + n overflows T.
forward_checked(a, n) == IF a + n <= TMax THEN Some(a + n) ELSE None

\* Step::backward_checked(a, n): None when a - n overflows T.
backward_checked(a, n) == IF a - n >= TMin THEN Some(a - n) ELSE None

\* Step::forward_unchecked(a, 1): a + 1; undefined behaviour at T::MAX, where
\* the build may produce any value of T.
forward_unchecked(a) == IF a < TMax THEN {a + 1} ELSE T

\* Step::backward_unchecked(a, 1): a - 1; undefined behaviour at T::MIN.
backward_unchecked(a) == IF a > TMin THEN {a - 1} ELSE T

\* The outcome of one iterator call: the fields afterwards, the value
\* returned, and whether an unchecked step was taken out of range.
Outcome(s, e, r, u) == [start |-> s, end |-> e, ret |-> r, ub |-> u]

(***************************************************************************)
(* impl Iterator / DoubleEndedIterator for RangeFromExclusiveToInclusive<T> *)
(***************************************************************************)
\* Mutant: the guard lets start == end through (`<=` for `<`).
RangeFromExclusiveToInclusive_next_le(s, e) ==
    IF s <= e
    THEN {Outcome(v, e, Some(v), ~(s < TMax)) : v \in forward_unchecked(s)}
    ELSE {Outcome(s, e, None, FALSE)}

\* Mutant: the next value is yielded but start is not moved.
RangeFromExclusiveToInclusive_next_peek(s, e) ==
    IF s < e
    THEN {Outcome(s, e, Some(s + 1), FALSE)}
    ELSE {Outcome(s, e, None, FALSE)}

RangeFromExclusiveToInclusive_next(s, e) ==
    IF s < e
    THEN {Outcome(v, e, Some(v), ~(s < TMax)) : v \in forward_unchecked(s)}
    ELSE {Outcome(s, e, None, FALSE)}

\* Mutant: an unknown step count is reported as a lower bound of 0
\* (`unwrap_or(0)` for `unwrap_or(usize::MAX)`).
RangeFromExclusiveToInclusive_size_hint_zero(t, s, e) ==
    IF s < e
    THEN LET hint == steps_between(t, s, e)
         IN  <<IF hint = None THEN 0 ELSE hint[1], hint>>
    ELSE <<0, Some(0)>>

RangeFromExclusiveToInclusive_size_hint(t, s, e) ==
    IF s < e
    THEN LET hint == steps_between(t, s, e)
         IN  <<IF hint = None THEN UsizeMax(t) ELSE hint[1], hint>>
    ELSE <<0, Some(0)>>

\* Mutant: on overshoot start is left where it was (no `self.start = end`).
RangeFromExclusiveToInclusive_nth_no_clamp(s, e, n) ==
    IF s = e
    THEN {Outcome(s, e, None, FALSE)}
    ELSE LET plus_n == forward_checked(s, n)
         IN  IF plus_n # None /\ plus_n[1] < e
             THEN {Outcome(v, e, Some(v), ~(plus_n[1] < TMax)) :
                       v \in forward_unchecked(plus_n[1])}
             ELSE {Outcome(s, e, None, FALSE)}

RangeFromExclusiveToInclusive_nth(s, e, n) ==
    IF s = e
    THEN {Outcome(s, e, None, FALSE)}
    ELSE LET plus_n == forward_checked(s, n)
         IN  IF plus_n # None /\ plus_n[1] < e
             THEN {Outcome(v, e, Some(v), ~(plus_n[1] < TMax)) :
                       v \in forward_unchecked(plus_n[1])}
             ELSE {Outcome(e, e, None, FALSE)}

\* Mutant: yields the new end instead of the previous one.
RangeFromExclusiveToInclusive_next_back_new_end(s, e) ==
    IF s < e
    THEN {Outcome(s, n, Some(n), ~(e > TMin)) : n \in backward_unchecked(e)}
    ELSE {Outcome(s, e, None, FALSE)}

RangeFromExclusiveToInclusive_next_back(s, e) ==
    IF s < e
    THEN {Outcome(s, n, Some(e), ~(e > TMin)) : n \in backward_unchecked(e)}
    ELSE {Outcome(s, e, None, FALSE)}

RangeFromExclusiveToInclusive_nth_back(s, e, n) ==
    IF s >= e
    THEN {Outcome(s, e, None, FALSE)}
    ELSE LET minus_n == backward_checked(e, n)
         IN  IF minus_n # None /\ s < minus_n[1]
             THEN {Outcome(s, v, Some(minus_n[1]), ~(minus_n[1] > TMin)) :
                       v \in backward_unchecked(minus_n[1])}
             ELSE {Outcome(s, s, None, FALSE)}

\* ExactSizeIterator::len: [val, panic]; unwrap() of None panics.
RangeFromExclusiveToInclusive_len(t, s, e) ==
    IF s < e
    THEN LET steps == steps_between(t, s, e)
         IN  IF steps = None
             THEN {[val |-> None, panic |-> TRUE]}
             ELSE {[val |-> Some(steps[1]), panic |-> FALSE]}
    ELSE {[val |-> Some(0), panic |-> FALSE]}

(***************************************************************************)
(* impl Iterator / DoubleEndedIterator for RangeFromExclusiveToExclusive<T> *)
(***************************************************************************)
RangeFromExclusiveToExclusive_next(t, s, e) ==
    IF OptGt(steps_between(t, s, e), 1)
    THEN {Outcome(v, e, Some(v), ~(s < TMax)) : v \in forward_unchecked(s)}
    ELSE {Outcome(s, e, None, FALSE)}

\* Mutant: the step count itself is reported (no `- 1`).
RangeFromExclusiveToExclusive_size_hint_no_minus_one(t, s, e) ==
    LET steps == steps_between(t, s, e)
    IN  IF steps # None
        THEN LET hint == steps[1]
             IN  IF hint > 1
                 THEN <<hint, Some(hint)>>
                 ELSE <<0, Some(0)>>
        ELSE IF s >= e
             THEN <<0, Some(0)>>
             ELSE <<UsizeMax(t), None>>

RangeFromExclusiveToExclusive_size_hint(t, s, e) ==
    LET steps == steps_between(t, s, e)
    IN  IF steps # None
        THEN LET hint == steps[1]
             IN  IF hint > 1
                 THEN <<hint - 1, Some(hint - 1)>>
                 ELSE <<0, Some(0)>>
        ELSE IF s >= e
             THEN <<0, Some(0)>>
             ELSE <<UsizeMax(t), None>>

\* Mutant: on overshoot start is left where it was (no clamp to end - 1).
RangeFromExclusiveToExclusive_nth_no_clamp(t, s, e, n) ==
    IF OptLe(steps_between(t, s, e), 1)
    THEN {Outcome(s, e, None, FALSE)}
    ELSE LET plus_n == forward_checked(s, n)
         IN  IF plus_n # None /\ OptGt(steps_between(t, plus_n[1], e), 1)
             THEN {Outcome(v, e, Some(v), ~(plus_n[1] < TMax)) :
                       v \in forward_unchecked(plus_n[1])}
             ELSE {Outcome(s, e, None, FALSE)}

RangeFromExclusiveToExclusive_nth(t, s, e, n) ==
    IF OptLe(steps_between(t, s, e), 1)
    THEN {Outcome(s, e, None, FALSE)}
    ELSE LET plus_n == forward_checked(s, n)
         IN  IF plus_n # None /\ OptGt(steps_between(t, plus_n[1], e), 1)
             THEN {Outcome(v, e, Some(v), ~(plus_n[1] < TMax)) :
                       v \in forward_unchecked(plus_n[1])}
             ELSE {Outcome(v, e, None, ~(e > TMin)) :
                       v \in backward_unchecked(e)}

\* Mutant: the guard on the step count is missing.
RangeFromExclusiveToExclusive_next_back_no_guard(t, s, e) ==
    {Outcome(s, v, Some(v), ~(e > TMin)) : v \in backward_unchecked(e)}

RangeFromExclusiveToExclusive_next_back(t, s, e) ==
    IF OptGt(steps_between(t, s, e), 1)
    THEN {Outcome(s, v, Some(v), ~(e > TMin)) : v \in backward_unchecked(e)}
    ELSE {Outcome(s, e, None, FALSE)}

\* Mutant: on overshoot end is moved onto start (no step forward).
RangeFromExclusiveToExclusive_nth_back_onto_start(t, s, e, n) ==
    IF OptLe(steps_between(t, s, e), 1)
    THEN {Outcome(s, e, None, FALSE)}
    ELSE LET minus_n == backward_checked(e, n)
         IN  IF minus_n # None /\ OptGt(steps_between(t, s, minus_n[1]), 1)
             THEN {Outcome(s, v, Some(v), ~(minus_n[1] > TMin)) :
                       v \in backward_unchecked(minus_n[1])}
             ELSE {Outcome(s, s, None, FALSE)}

RangeFromExclusiveToExclusive_nth_back(t, s, e, n) ==
    IF OptLe(steps_between(t, s, e), 1)
    THEN {Outcome(s, e, None, FALSE)}
    ELSE LET minus_n == backward_checked(e, n)
         IN  IF minus_n # None /\ OptGt(steps_between(t, s, minus_n[1]), 1)
             THEN {Outcome(s, v, Some(v), ~(minus_n[1] > TMin)) :
                       v \in backward_unchecked(minus_n[1])}
             ELSE {Outcome(s, v, None, ~(s < TMax)) :
                       v \in forward_unchecked(s)}

\* Mutant: the `start < end` guard is missing.
RangeFromExclusiveToExclusive_len_no_guard(t, s, e) ==
    LET steps == steps_between(t, s, e)
    IN  IF steps = None
        THEN {[val |-> None, panic |-> TRUE]}
        ELSE IF steps[1] - 1 < 0
             THEN {[val |-> None, panic |-> TRUE],
                   [val |-> Some((steps[1] - 1) % (UsizeMax(t) + 1)),
                    panic |-> FALSE]}
             ELSE {[val |-> Some(steps[1] - 1), panic |-> FALSE]}

\* ExactSizeIterator::len: unwrap() of None panics; `- 1` below zero panics
\* with overflow checks and wraps without them.
RangeFromExclusiveToExclusive_len(t, s, e) ==
    IF s < e
    THEN LET steps == steps_between(t, s, e)
         IN  IF steps = None
             THEN {[val |-> None, panic |-> TRUE]}
             ELSE IF steps[1] - 1 < 0
                  THEN {[val |-> None, panic |-> TRUE],
                        [val |-> Some((steps[1] - 1) % (UsizeMax(t) + 1)),
                         panic |-> FALSE]}
                  ELSE {[val |-> Some(steps[1] - 1), panic |-> FALSE]}
    ELSE {[val |-> Some(0), panic |-> FALSE]}

(***************************************************************************)
(* Dispatch on the range type held in the state.                           *)
(***************************************************************************)
next(k, t, s, e) ==
    IF k = "inclusive" THEN RangeFromExclusiveToInclusive_next(s, e)
                       ELSE RangeFromExclusiveToExclusive_next(t, s, e)

next_back(k, t, s, e) ==
    IF k = "inclusive" THEN RangeFromExclusiveToInclusive_next_back(s, e)
                       ELSE RangeFromExclusiveToExclusive_next_back(t, s, e)

nth(k, t, s, e, n) ==
    IF k = "inclusive" THEN RangeFromExclusiveToInclusive_nth(s, e, n)
                       ELSE RangeFromExclusiveToExclusive_nth(t, s, e, n)

nth_back(k, t, s, e, n) ==
    IF k = "inclusive" THEN RangeFromExclusiveToInclusive_nth_back(s, e, n)
                       ELSE RangeFromExclusiveToExclusive_nth_back(t, s, e, n)

size_hint(k, t, s, e) ==
    IF k = "inclusive" THEN RangeFromExclusiveToInclusive_size_hint(t, s, e)
                       ELSE RangeFromExclusiveToExclusive_size_hint(t, s, e)

len(k, t, s, e) ==
    IF k = "inclusive" THEN RangeFromExclusiveToInclusive_len(t, s, e)
                       ELSE RangeFromExclusiveToExclusive_len(t, s, e)

(***************************************************************************)
(* State.  kind/ty: the range type and the target.  start/end: the fields  *)
(* of the range.  op/arg/ret: the last call, its argument n and what it    *)
(* returned (size_hint: <<lower, upper>>; len: <<length>>).                *)
(* prevStart/prevEnd: the fields before that call.  sawNone: some call of  *)
(* next/next_back/nth/nth_back has returned None; after: the last call     *)
(* was made when sawNone already held.  ub: an unchecked step was taken    *)
(* out of range.  panicked: the last call panicked.  orig/trace: in a      *)
(* drain, the fields at construction and the values yielded so far        *)
(* (traceBack: the values next_back() yielded to a consumer that takes     *)
(* from both ends).                                                        *)
(* seqKind/seq/prevSeq/res: the sequence an indexing program holds, its    *)
(* contents before the last operation and what the last indexing gave.     *)
(* borrowed: the range of a bounds query holds references (Idx = &T).      *)
(* wire/decoded: what a serde program serialized or was given, and the     *)
(* result of deserializing it.                                             *)
(***************************************************************************)
\* An iterator program indexes nothing and asks for no bounds.
NoSequence ==
    /\ seqKind = "none"
    /\ seq = << >>
    /\ prevSeq = << >>
    /\ res = [panic |-> FALSE, msg |-> "", len |-> 0, index |-> 0,
              lo |-> 0, hi |-> 0]
    /\ borrowed = FALSE

Construct(tracked) ==
    /\ kind \in Kinds
    /\ ty \in Targets
    /\ start \in T
    /\ end \in T
    /\ op = "new"
    /\ arg = 0
    /\ ret = None
    /\ prevStart = start
    /\ prevEnd = end
    /\ sawNone = FALSE
    /\ after = FALSE
    /\ ub = FALSE
    /\ panicked = FALSE
    /\ orig = IF tracked THEN <<start, end>> ELSE << >>
    /\ trace = << >>
    /\ traceBack = << >>
    /\ NoSequence
    /\ NoWire

\* A range built by direct field initialization: any start and end.
Init == Construct(FALSE)

\* The same, for a consumer that drains the range and records what it gets.
InitDrain == Construct(TRUE)

\* One call of next/next_back/nth/nth_back with outcome o.
Apply(name, n, o) ==
    /\ start' = o.start
    /\ end' = o.end
    /\ ret' = o.ret
    /\ op' = name
    /\ arg' = n
    /\ prevStart' = start
    /\ prevEnd' = end
    /\ sawNone' = (sawNone \/ o.ret = None)
    /\ after' = sawNone
    /\ ub' = (ub \/ o.ub)
    /\ panicked' = FALSE
    /\ UNCHANGED <<kind, ty, orig>>
    /\ UNCHANGED indexVars
    /\ UNCHANGED serdeVars

CallNext ==
    \E o \in next(kind, ty, start, end) :
        Apply("next", 0, o) /\ UNCHANGED <<trace, traceBack>>

CallNextBack ==
    \E o \in next_back(kind, ty, start, end) :
        Apply("next_back", 0, o) /\ UNCHANGED <<trace, traceBack>>

CallNth ==
    \E n \in Usize(ty) : \E o \in nth(kind, ty, start, end, n) :
        Apply("nth", n, o) /\ UNCHANGED <<trace, traceBack>>

CallNthBack ==
    \E n \in Usize(ty) : \E o \in nth_back(kind, ty, start, end, n) :
        Apply("nth_back", n, o) /\ UNCHANGED <<trace, traceBack>>

\* size_hint(&self) reads the fields and changes nothing.
CallSizeHint ==
    /\ ret' = size_hint(kind, ty, start, end)
    /\ op' = "size_hint"
    /\ arg' = 0
    /\ prevStart' = start
    /\ prevEnd' = end
    /\ panicked' = FALSE
    /\ UNCHANGED <<kind, ty, start, end, sawNone, after, ub,
                 orig, trace, traceBack>>
    /\ UNCHANGED indexVars
    /\ UNCHANGED serdeVars

\* len(&self) exists for the element types no wider than usize only
\* (the *_exact_iter_impl! macros name the pointer widths).
CallLen ==
    /\ ty = "narrow"
    /\ \E l \in len(kind, ty, start, end) :
        /\ ret' = l.val
        /\ panicked' = l.panic
    /\ op' = "len"
    /\ arg' = 0
    /\ prevStart' = start
    /\ prevEnd' = end
    /\ UNCHANGED <<kind, ty, start, end, sawNone, after, ub,
                 orig, trace, traceBack>>
    /\ UNCHANGED indexVars
    /\ UNCHANGED serdeVars

\* A consumer that calls next() only and records every value it is given.
DrainNext ==
    \E o \in next(kind, ty, start, end) :
        /\ Apply("next", 0, o)
        /\ trace' = trace \o o.ret
        /\ UNCHANGED traceBack

\* A consumer that calls next_back() only and records every value.
DrainNextBack ==
    \E o \in next_back(kind, ty, start, end) :
        /\ Apply("next_back", 0, o)
        /\ trace' = trace \o o.ret
        /\ UNCHANGED traceBack

\* A consumer that takes from both ends: its next_back() calls, recorded
\* apart from its next() calls (DrainNext).
DrainBack ==
    \E o \in next_back(kind, ty, start, end) :
        /\ Apply("next_back", 0, o)
        /\ traceBack' = traceBack \o o.ret
        /\ UNCHANGED trace

Next ==
    \/ CallNext
    \/ CallNextBack
    \/ CallNth
    \/ CallNthBack
    \/ CallSizeHint
    \/ CallLen

Spec == Init /\ [][Next]_vars

SpecForward == InitDrain /\ [][DrainNext]_vars

SpecBackward == InitDrain /\ [][DrainNextBack]_vars

(***************************************************************************)
(* Helpers of the properties.                                              *)
(***************************************************************************)
\* The sequence a, a + 1, ..., b (empty when a > b).
Ascending(a, b) == [i \in 1 .. (b - a + 1) |-> a + i - 1]

IsPrefix(p, q) ==
    /\ Len(p) <= Len(q)
    /\ \A i \in 1 .. Len(p) : p[i] = q[i]

SameSeq(p, q) == Len(p) = Len(q) /\ IsPrefix(p, q)

IsReverse(p, q) ==
    /\ Len(p) = Len(q)
    /\ \A i \in 1 .. Len(p) : p[i] = q[Len(q) + 1 - i]

\* Every sequence of values that next() repeated until it returns None can
\* yield from a range with fields s, e.
RECURSIVE FwdSeqs(_, _, _, _)
FwdSeqs(k, t, s, e) ==
    UNION { IF o.ret = None
            THEN {<< >>}
            ELSE {o.ret \o rest : rest \in FwdSeqs(k, t, o.start, o.end)} :
            o \in next(k, t, s, e) }

(***************************************************************************)
(* Properties of a forward drain (SpecForward).                            *)
(***************************************************************************)
\* C1: RangeFromExclusiveToInclusive{start,end}: repeated next() yields
\* start+1, start+2, ..., end in that order and then nothing; with
\* start >= end the very first next() yields nothing.  At every point of a
\* drain the values yielded so far are a prefix of start+1..end, a call that
\* yields returns the last of them, and a call that yields nothing comes
\* exactly when all of start+1..end have been yielded.
C1_InclusiveNextYieldsStartPlusOneToEnd ==
    (kind = "inclusive" /\ op = "next") =>
        LET want == Ascending(orig[1] + 1, orig[2])
        IN  /\ IsPrefix(trace, want)
            /\ (ret # None => trace # << >> /\ ret = Some(trace[Len(trace)]))
            /\ (ret = None => SameSeq(trace, want))
            /\ (orig[1] >= orig[2] => ret = None /\ trace = << >>)

\* C1 witness: a drain of an inclusive range of at least two values has
\* reached the call that yields nothing.
C1_Witness ==
    /\ kind = "inclusive"
    /\ op = "next"
    /\ ret = None
    /\ orig[1] < orig[2]
    /\ Len(trace) >= 2

\* C2 (as stated): RangeFromExclusiveToExclusive{start,end}: repeated next()
\* yields start+1, ..., end-1 in that order and then nothing, and the range
\* is empty (the first next() and the first next_back() yield nothing) if
\* and only if start+1 >= end.
C2_ExclusiveNextYieldsStartPlusOneToEndMinusOne ==
    (kind = "exclusive" /\ op = "next") =>
        LET want == Ascending(orig[1] + 1, orig[2] - 1)
        IN  /\ IsPrefix(trace, want)
            /\ (ret # None => trace # << >> /\ ret = Some(trace[Len(trace)]))
            /\ (ret = None => SameSeq(trace, want))
            /\ ((trace = << >> /\ ret = None) <=> orig[1] + 1 >= orig[2])
            /\ ((\A o \in next_back(kind, ty, orig[1], orig[2]) : o.ret = None)
                    <=> orig[1] + 1 >= orig[2])

\* C3: a RangeFromExclusiveToExclusive{start,end} is empty unless
\* start < end + 1, as its documentation says: it contains no value, so that
\* iteration yields nothing, exactly when start < end + 1 is false.
C3_EmptyExactlyWhenNotStartLtEndPlusOne ==
    (kind = "exclusive" /\ op = "next") =>
        ((trace = << >> /\ ret = None) <=> ~(orig[1] < orig[2] + 1))

(***************************************************************************)
(* Properties of a backward drain (SpecBackward).                          *)
(***************************************************************************)
\* C4: for both bounded range types and every start, end, the values yielded
\* by repeated next_back() until it yields nothing are the reverse of the
\* values yielded by repeated next() from the same initial range.
C4_NextBackIsReverseOfNext ==
    (op = "next_back" /\ ret = None) =>
        \A f \in FwdSeqs(kind, ty, orig[1], orig[2]) : IsReverse(trace, f)

\* C4 witness: a backward drain of at least three values is complete.
C4_Witness ==
    /\ op = "next_back"
    /\ ret = None
    /\ Len(trace) >= 3

(***************************************************************************)
(* Properties of arbitrary call sequences (Spec).                          *)
(***************************************************************************)
FourOps == {"next", "next_back", "nth", "nth_back"}

\* No call of next() or next_back() on the current fields yields a value.
Exhausted ==
    \A o \in next(kind, ty, start, end) \cup next_back(kind, ty, start, end) :
        o.ret = None

\* C5: RangeFromExclusiveToInclusive with start < end: nth(n) with n at least
\* the number of remaining values yields nothing and leaves start == end
\* with end unchanged; nth_back(n) with such n yields nothing and leaves
\* end == start with start unchanged; the range is then exhausted and start
\* and end are not crossed.
C5_InclusiveOvershootClampsToOtherEnd ==
    (/\ kind = "inclusive"
     /\ op \in {"nth", "nth_back"}
     /\ prevStart < prevEnd
     /\ arg >= prevEnd - prevStart) =>
        /\ ret = None
        /\ start = end
        /\ (op = "nth" => end = prevEnd)
        /\ (op = "nth_back" => start = prevStart)
        /\ Exhausted

\* C5 witness: nth(n) was called on a non-empty inclusive range with n
\* beyond the number of remaining values.
C5_Witness ==
    /\ kind = "inclusive"
    /\ op = "nth"
    /\ prevStart < prevEnd
    /\ arg > prevEnd - prevStart
    /\ start = prevEnd

\* C6 (as stated): RangeFromExclusiveToExclusive with at least two steps
\* between start and end: nth(n) with n at least the number of remaining
\* values yields nothing and leaves start one step below the unchanged end;
\* nth_back(n) with such n yields nothing and leaves end one step above the
\* unchanged start.
C6_ExclusiveOvershootClampsOneStepApart ==
    (/\ kind = "exclusive"
     /\ op \in {"nth", "nth_back"}
     /\ prevEnd - prevStart >= 2
     /\ arg >= prevEnd - prevStart - 1) =>
        /\ ret = None
        /\ start + 1 = end
        /\ (op = "nth" => end = prevEnd)
        /\ (op = "nth_back" => start = prevStart)

\* C7: exhaustion is permanent: once next(), next_back(), nth(n) or
\* nth_back(n) has yielded nothing, every later call of any of the four, in
\* any order and with any n, yields nothing.
C7_ExhaustionIsPermanent ==
    (after /\ op \in FourOps) => ret = None

\* C7 witness: next() or next_back() was called after an earlier call had
\* already yielded nothing.
C7_Witness ==
    /\ after
    /\ op \in {"next", "next_back"}
    /\ ret = None

\* C8 (as stated): RangeFromExclusiveToInclusive.size_hint() returns
\* (k, Some(k)), k the step count between start and end, whenever
\* start < end, and (0, Some(0)) whenever start >= end.
C8_InclusiveSizeHintIsStepCount ==
    (kind = "inclusive" /\ op = "size_hint") =>
        ret = IF prevStart < prevEnd
              THEN <<prevEnd - prevStart, Some(prevEnd - prevStart)>>
              ELSE <<0, Some(0)>>

\* C8 (amended): RangeFromExclusiveToInclusive.size_hint() returns
\* (k, Some(k)), k the step count between start and end, whenever
\* start < end and k does not exceed usize::MAX; (usize::MAX, None) whenever
\* start < end and k exceeds usize::MAX; (0, Some(0)) whenever start >= end.
C8_InclusiveSizeHintIsStepCountIfRepresentable ==
    (kind = "inclusive" /\ op = "size_hint") =>
        ret = IF prevStart >= prevEnd
              THEN <<0, Some(0)>>
              ELSE IF prevEnd - prevStart <= UsizeMax(ty)
                   THEN <<prevEnd - prevStart, Some(prevEnd - prevStart)>>
                   ELSE <<UsizeMax(ty), None>>

\* C8 witness: size_hint() was called on an inclusive range whose step count
\* exceeds usize::MAX.
C8_Witness ==
    /\ kind = "inclusive"
    /\ op = "size_hint"
    /\ prevStart < prevEnd
    /\ prevEnd - prevStart > UsizeMax(ty)
    /\ ret = <<UsizeMax(ty), None>>

\* C9: RangeFromExclusiveToExclusive.size_hint() returns (k-1, Some(k-1))
\* when the step count k between start and end is known and greater than 1,
\* (0, Some(0)) when k is known and at most 1; when the step count is
\* unknowable it returns (0, Some(0)) if start >= end and (usize::MAX, None)
\* otherwise.
C9_ExclusiveSizeHint ==
    (kind = "exclusive" /\ op = "size_hint") =>
        LET k == prevEnd - prevStart
            known == prevStart <= prevEnd /\ k <= UsizeMax(ty)
        IN  ret = IF known
                  THEN IF k > 1 THEN <<k - 1, Some(k - 1)>> ELSE <<0, Some(0)>>
                  ELSE IF prevStart >= prevEnd
                       THEN <<0, Some(0)>>
                       ELSE <<UsizeMax(ty), None>>

\* C9 witness: size_hint() was called on an exclusive range with a known
\* step count greater than 1.
C9_Witness ==
    /\ kind = "exclusive"
    /\ op = "size_hint"
    /\ prevEnd - prevStart > 2
    /\ prevEnd - prevStart <= UsizeMax(ty)
    /\ ret = <<prevEnd - prevStart - 1, Some(prevEnd - prevStart - 1)>>

\* C10: for the element types with an exact length, len() of either bounded
\* range does not panic or underflow and equals the number of values
\* repeated next() would yield: 0 if start >= end, otherwise the step count
\* (inclusive upper bound) or the step count minus one (exclusive upper
\* bound); from T::MIN to T::MAX this is 2^Bits - 1 and 2^Bits - 2.
C10_LenIsNumberOfValues ==
    (op = "len") =>
        /\ ~panicked
        /\ ret # None
        /\ ret[1] >= 0
        /\ ret[1] = (IF prevStart >= prevEnd THEN 0
                     ELSE IF kind = "inclusive" THEN prevEnd - prevStart
                     ELSE prevEnd - prevStart - 1)
        /\ \A f \in FwdSeqs(kind, ty, prevStart, prevEnd) : Len(f) = ret[1]
        /\ (prevStart = TMin /\ prevEnd = TMax =>
                ret[1] = 2 ^ Bits - (IF kind = "inclusive" THEN 1 ELSE 2))

\* C10 witness: len() was called on the exclusive range from T::MIN to
\* T::MAX.
C10_Witness ==
    /\ op = "len"
    /\ kind = "exclusive"
    /\ prevStart = TMin
    /\ prevEnd = TMax
    /\ ret = Some(2 ^ Bits - 2)

(***************************************************************************)
(* RangeFromExclusive<T>: the iterator without an upper bound.             *)
(* Arithmetic that overflows panics in a build with overflow checks and    *)
(* wraps in a build without them: an operation that can overflow answers   *)
(* the set of the outcomes [val, panic] of the two builds.                 *)
(***************************************************************************)
\* x wrapped into T (two's complement).
WrapT(x) == ((x - TMin) % (2 ^ Bits)) + TMin

\* Step::forward(a, n) for an integer T.
forward(a, n) ==
    IF forward_checked(a, n) # None
    THEN {[val |-> a + n, panic |-> FALSE]}
    ELSE {[val |-> a, panic |-> TRUE],
          [val |-> WrapT(a + n), panic |-> FALSE]}

\* n + 1 in usize.
usize_add_one(t, n) ==
    IF n + 1 <= UsizeMax(t)
    THEN {[val |-> n + 1, panic |-> FALSE]}
    ELSE {[val |-> n, panic |-> TRUE],
          [val |-> (n + 1) % (UsizeMax(t) + 1), panic |-> FALSE]}

\* What a call leaves in start and returns, or that it panicked (start is
\* then as it was: the assignment was not reached).
FromOutcome(s, r, p) == [start |-> s, ret |-> r, panic |-> p]

Stepped(s, f) ==
    IF f.panic THEN FromOutcome(s, None, TRUE)
               ELSE FromOutcome(f.val, Some(f.val), FALSE)

\* A next() that yields start and does not step.
RangeFromExclusive_next_stay(s) == {FromOutcome(s, Some(s), FALSE)}

RangeFromExclusive_next(s) == {Stepped(s, f) : f \in forward(s, 1)}

RangeFromExclusive_size_hint(t) == <<UsizeMax(t), None>>

RangeFromExclusive_nth(t, s, n) ==
    UNION {IF m.panic THEN {FromOutcome(s, None, TRUE)}
                      ELSE {Stepped(s, f) : f \in forward(s, m.val)}
           : m \in usize_add_one(t, n)}

\* min(mut self) is next() on the range it was given by value.
RangeFromExclusive_min(s) == RangeFromExclusive_next(s)

\* last, min and max of the bounded ranges, each on the range it was given
\* by value.
RangeFromExclusiveToInclusive_last(s, e) ==
    RangeFromExclusiveToInclusive_next_back(s, e)

RangeFromExclusiveToInclusive_min(s, e) ==
    RangeFromExclusiveToInclusive_next(s, e)

RangeFromExclusiveToInclusive_max(s, e) ==
    RangeFromExclusiveToInclusive_next_back(s, e)

RangeFromExclusiveToExclusive_last(t, s, e) ==
    RangeFromExclusiveToExclusive_next_back(t, s, e)

RangeFromExclusiveToExclusive_min(t, s, e) ==
    RangeFromExclusiveToExclusive_next(t, s, e)

RangeFromExclusiveToExclusive_max(t, s, e) ==
    RangeFromExclusiveToExclusive_next_back(t, s, e)

last(k, t, s, e) ==
    IF k = "inclusive" THEN RangeFromExclusiveToInclusive_last(s, e)
                       ELSE RangeFromExclusiveToExclusive_last(t, s, e)

min(k, t, s, e) ==
    IF k = "inclusive" THEN RangeFromExclusiveToInclusive_min(s, e)
                       ELSE RangeFromExclusiveToExclusive_min(t, s, e)

max(k, t, s, e) ==
    IF k = "inclusive" THEN RangeFromExclusiveToInclusive_max(s, e)
                       ELSE RangeFromExclusiveToExclusive_max(t, s, e)

\* A RangeFromExclusive built by direct field initialization.  It has no
\* end field: end stays 0 and is never read.
InitFrom ==
    /\ kind = "from"
    /\ ty \in Targets
    /\ start \in T
    /\ end = 0
    /\ op = "new"
    /\ arg = 0
    /\ ret = None
    /\ prevStart = start
    /\ prevEnd = end
    /\ sawNone = FALSE
    /\ after = FALSE
    /\ ub = FALSE
    /\ panicked = FALSE
    /\ orig = << >>
    /\ trace = << >>
    /\ traceBack = << >>
    /\ NoSequence
    /\ NoWire

\* One call on a RangeFromExclusive with outcome o.
FromApply(name, n, o) ==
    /\ start' = o.start
    /\ ret' = o.ret
    /\ panicked' = o.panic
    /\ op' = name
    /\ arg' = n
    /\ prevStart' = start
    /\ prevEnd' = end
    /\ UNCHANGED <<kind, ty, end, sawNone, after, ub,
                 orig, trace, traceBack>>
    /\ UNCHANGED indexVars
    /\ UNCHANGED serdeVars

FromNext ==
    /\ kind = "from"
    /\ \E o \in RangeFromExclusive_next(start) : FromApply("next", 0, o)

FromNth ==
    /\ kind = "from"
    /\ \E n \in Usize(ty) : \E o \in RangeFromExclusive_nth(ty, start, n) :
           FromApply("nth", n, o)

FromSizeHint ==
    /\ kind = "from"
    /\ FromApply("size_hint", 0,
                 FromOutcome(start, RangeFromExclusive_size_hint(ty), FALSE))

\* range.clone().min(): the clone is consumed, the range keeps its start.
FromMin ==
    /\ kind = "from"
    /\ \E o \in RangeFromExclusive_min(start) :
           FromApply("min", 0, FromOutcome(start, o.ret, o.panic))

NextFrom == FromNext \/ FromNth \/ FromSizeHint \/ FromMin

SpecFrom == InitFrom /\ [][NextFrom]_vars

\* last/min/max of a bounded range, called on a clone with outcome o.
Consume(name, o) ==
    /\ ret' = o.ret
    /\ op' = name
    /\ arg' = 0
    /\ prevStart' = start
    /\ prevEnd' = end
    /\ ub' = (ub \/ o.ub)
    /\ panicked' = FALSE
    /\ UNCHANGED <<kind, ty, start, end, sawNone, after,
                 orig, trace, traceBack>>
    /\ UNCHANGED indexVars
    /\ UNCHANGED serdeVars

CallLast ==
    /\ kind \in Kinds
    /\ \E o \in last(kind, ty, start, end) : Consume("last", o)

CallMin ==
    /\ kind \in Kinds
    /\ \E o \in min(kind, ty, start, end) : Consume("min", o)

CallMax ==
    /\ kind \in Kinds
    /\ \E o \in max(kind, ty, start, end) : Consume("max", o)

\* Programs over any of the three range types that step the range and
\* ask for its last, least and greatest value.
InitAll == Init \/ InitFrom

NextAll ==
    \/ kind \in Kinds /\ Next
    \/ NextFrom
    \/ CallLast
    \/ CallMin
    \/ CallMax

SpecAll == InitAll /\ [][NextAll]_vars

(***************************************************************************)
(* Properties of RangeFromExclusive and of last/min/max.                   *)
(***************************************************************************)
\* Every outcome of k >= 1 consecutive next() calls from start s: the last
\* call's outcome, or the panic that ended the calls.
RECURSIVE NextChain(_, _)
NextChain(s, k) ==
    IF k = 1
    THEN RangeFromExclusive_next(s)
    ELSE UNION {IF o.panic THEN {o} ELSE NextChain(o.start, k - 1)
                : o \in RangeFromExclusive_next(s)}

\* Two outcomes agree: both panicked, or both returned the same value and
\* left the same start.
SameOutcome(a, b) ==
    IF a.panic \/ b.panic
    THEN a.panic /\ b.panic
    ELSE a.ret = b.ret /\ a.start = b.start

\* C11 as stated: every next() on a RangeFromExclusive steps start forward
\* by exactly one and yields the new start, never nothing, and size_hint()
\* is (usize::MAX, None) in every state.
C11_NextAlwaysStepsByOne ==
    /\ op = "next" =>
           /\ ~panicked
           /\ start = prevStart + 1
           /\ ret = Some(prevStart + 1)
    /\ op = "size_hint" => ret = <<UsizeMax(ty), None>>

\* C11 amended: every next() on a RangeFromExclusive whose start is below
\* T::MAX steps start forward by exactly one and yields the new start; at
\* T::MAX the call panics (overflow checks) and leaves start, or wraps to
\* T::MIN and yields it; a call that returns never returns nothing; and
\* size_hint() is (usize::MAX, None) in every state and changes nothing.
C11_NextStepsByOneBelowMax ==
    /\ (op = "next" /\ prevStart < TMax) =>
           /\ ~panicked
           /\ start = prevStart + 1
           /\ ret = Some(prevStart + 1)
    /\ (op = "next" /\ prevStart = TMax) =>
           \/ panicked /\ start = prevStart
           \/ ~panicked /\ start = TMin /\ ret = Some(TMin)
    /\ (op = "next" /\ ~panicked) => ret # None
    /\ op = "size_hint" =>
           /\ ret = <<UsizeMax(ty), None>>
           /\ start = prevStart
           /\ ~panicked

\* next() was called at T::MAX in a build without overflow checks and
\* wrapped to T::MIN.
C11_Witness ==
    /\ kind = "from"
    /\ op = "next"
    /\ prevStart = TMax
    /\ ~panicked
    /\ ret = Some(TMin)
    /\ start = TMin

\* C12 as stated: for every n of usize, nth(n) on a RangeFromExclusive
\* returns the same value and leaves the same start as n + 1 consecutive
\* next() calls (and panics only where they do).
C12_NthIsRepeatedNext ==
    op = "nth" =>
        LET chain == NextChain(prevStart, arg + 1)
            outs == RangeFromExclusive_nth(ty, prevStart, arg)
            now == FromOutcome(start, ret, panicked)
        IN  /\ \E c \in chain : SameOutcome(now, c)
            /\ \A c \in chain : \E o \in outs : SameOutcome(o, c)

\* C13 as stated: on both bounded types min() returns start + 1 and max()
\* and last() return the largest value (end, or end - 1 when the upper
\* bound is exclusive), each returning nothing exactly when the range is
\* empty; RangeFromExclusive.min() returns start + 1.
C13_MinMaxLast ==
    LET empty == IF kind = "inclusive" THEN ~(start < end)
                                       ELSE ~(start + 1 < end)
        largest == IF kind = "inclusive" THEN end ELSE end - 1
    IN  /\ (kind \in Kinds /\ op = "min") =>
               ret = IF empty THEN None ELSE Some(start + 1)
        /\ (kind \in Kinds /\ op \in {"max", "last"}) =>
               ret = IF empty THEN None ELSE Some(largest)
        /\ (kind = "from" /\ op = "min") =>
               ~panicked /\ ret = Some(start + 1)

(***************************************************************************)
(* Indexing (src/src/impl_index.rs).  The index type is usize of the       *)
(* "narrow" target.  A sequence is a Sequences value whose element at the  *)
(* 0-based position p is seq[p + 1]:                                       *)
(*   slice, Vec: elements 0 and 1;                                         *)
(*   str, String: UTF-8 bytes, 1 = a one-byte character, 2 = the first     *)
(*                and 3 = the second byte of a two-byte character;         *)
(*   CStr: to_bytes_with_nul(): bytes 1 and 2, then the terminator 0.      *)
(* An indexing answers a view [lo, hi) of the sequence or panics with a    *)
(* message; len and index are the numbers the message cites.               *)
(***************************************************************************)
\* Longest sequence of the model.
MaxLen == 3

SeqKinds == {"slice", "Vec", "str", "String", "CStr"}
RangeKinds == {"from", "inclusive", "exclusive"}

\* core::usize::MAX.
IndexMax == UsizeMax("narrow")

\* The values of start and end that are tried.
IndexArgs == (0 .. MaxLen + 1) \cup {IndexMax}

SeqsOver(vals, lens) == UNION {[1 .. n -> vals] : n \in lens}

IsUtf8(sq) ==
    \A i \in 1 .. Len(sq) :
        /\ sq[i] = 2 => (i < Len(sq) /\ sq[i + 1] = 3)
        /\ sq[i] = 3 => (i > 1 /\ sq[i - 1] = 2)

Seqs(sk) ==
    CASE sk \in {"slice", "Vec"} -> SeqsOver({0, 1}, 0 .. MaxLen)
      [] sk \in {"str", "String"} ->
             {sq \in SeqsOver({1, 2, 3}, 0 .. MaxLen) : IsUtf8(sq)}
      [] sk = "CStr" ->
             {Append(sq, 0) : sq \in SeqsOver({1, 2}, 0 .. MaxLen - 1)}

View(a, b) ==
    [panic |-> FALSE, msg |-> "", len |-> 0, index |-> 0, lo |-> a, hi |-> b]

Panic(m, l, i) ==
    [panic |-> TRUE, msg |-> m, len |-> l, index |-> i, lo |-> 0, hi |-> 0]

FromMax == "attempted to index slice exclusively from maximum usize"
ToMax == "attempted to index slice inclusively to maximum usize"
OutOfBounds == "index out of bounds: the len is {} but the index is {}"

\* usize + 1 that does not fit usize: a panic with overflow checks, a
\* wrapped sum without them.
Overflow == Panic("attempt to add with overflow", 0, 0)

\* &self[a..b] of a slice of length l (core::slice): the start is checked
\* against the length, then the end, then the two against each other.  The
\* texts are core's.
slice_range(l, a, b) ==
    IF a > IndexMax \/ b > IndexMax THEN Overflow
    ELSE IF a > l
         THEN Panic("range start index {} out of range for slice of length {}",
                    0, 0)
    ELSE IF b > l
         THEN Panic("range end index {} out of range for slice of length {}",
                    0, 0)
    ELSE IF a > b THEN Panic("slice index starts at {} but ends at {}", 0, 0)
    ELSE View(a, b)

\* str::is_char_boundary(i).
is_char_boundary(sq, i) ==
    \/ i = 0
    \/ i = Len(sq)
    \/ i < Len(sq) /\ sq[i + 1] # 3

\* &self[a..b] of a str (core::str): a bound beyond the length, the start
\* first; then a start after the end; then a bound inside a character, the
\* start first.  The texts are core's, with '{}' for a quoted argument.
str_range(sq, a, b) ==
    IF a > IndexMax \/ b > IndexMax THEN Overflow
    ELSE IF a > Len(sq)
         THEN Panic("start byte index {} is out of bounds of '{}'", 0, 0)
    ELSE IF b > Len(sq)
         THEN Panic("end byte index {} is out of bounds of '{}'", 0, 0)
    ELSE IF a > b
         THEN Panic("begin > end ({} > {}) when slicing '{}'", 0, 0)
    ELSE IF ~is_char_boundary(sq, a)
         THEN Panic("start byte index {} is not a char boundary; it is inside '{}' (bytes {}..{}) of '{}'",
                    0, 0)
    ELSE IF ~is_char_boundary(sq, b)
         THEN Panic("end byte index {} is not a char boundary; it is inside '{}' (bytes {}..{}) of '{}'",
                    0, 0)
    ELSE View(a, b)

(***************************************************************************)
(* The implementations of Index and IndexMut, one operator each.           *)
(***************************************************************************)

\* Index and IndexMut of RangeFromExclusive<usize>.
\* The view taken from start itself.
slice_index_RangeFromExclusive_from_start(sq, s) ==
    IF s = IndexMax THEN Panic(FromMax, 0, 0) ELSE
    slice_range(Len(sq), s, Len(sq))

slice_index_RangeFromExclusive(sq, s) ==
    IF s = IndexMax THEN Panic(FromMax, 0, 0) ELSE
    slice_range(Len(sq), s + 1, Len(sq))

\* The mutable view taken of the whole slice.
slice_index_mut_RangeFromExclusive_whole(sq, s) ==
    IF s = IndexMax THEN Panic(FromMax, 0, 0) ELSE
    slice_range(Len(sq), 0, Len(sq))

slice_index_mut_RangeFromExclusive(sq, s) ==
    IF s = IndexMax THEN Panic(FromMax, 0, 0) ELSE
    slice_range(Len(sq), s + 1, Len(sq))

str_index_RangeFromExclusive(sq, s) ==
    IF s = IndexMax THEN Panic(FromMax, 0, 0) ELSE
    str_range(sq, s + 1, Len(sq))

str_index_mut_RangeFromExclusive(sq, s) ==
    IF s = IndexMax THEN Panic(FromMax, 0, 0) ELSE
    str_range(sq, s + 1, Len(sq))

\* &self[..][index]
String_index_RangeFromExclusive(sq, s) ==
    str_index_RangeFromExclusive(sq, s)

\* &self[..][index]
String_index_mut_RangeFromExclusive(sq, s) ==
    str_index_mut_RangeFromExclusive(sq, s)

\* Index::index(&**self, index)
Vec_index_RangeFromExclusive(sq, s) ==
    slice_index_RangeFromExclusive(sq, s)

\* IndexMut::index_mut(&mut **self, index)
Vec_index_mut_RangeFromExclusive(sq, s) ==
    slice_index_mut_RangeFromExclusive(sq, s)

\* The view taken whenever start + 1 <= bytes.len().
CStr_index_RangeFromExclusive_le(sq, s) ==
    IF s = IndexMax THEN Panic(FromMax, 0, 0) ELSE
    IF s + 1 <= Len(sq) THEN slice_range(Len(sq), s + 1, Len(sq))
                        ELSE Panic(OutOfBounds, Len(sq), s)

\* sq is self.to_bytes_with_nul(); the view is &bytes[(index.start + 1)..].
CStr_index_RangeFromExclusive(sq, s) ==
    IF s = IndexMax THEN Panic(FromMax, 0, 0) ELSE
    IF s + 1 < Len(sq) THEN slice_range(Len(sq), s + 1, Len(sq))
                       ELSE Panic(OutOfBounds, Len(sq), s)


\* Index and IndexMut of RangeFromExclusiveToInclusive<usize>.
\* The view taken up to end, end left out.
slice_index_RangeFromExclusiveToInclusive_end_excluded(sq, s, e) ==
    IF s = IndexMax THEN Panic(FromMax, 0, 0) ELSE
    IF e = IndexMax THEN Panic(ToMax, 0, 0) ELSE
    slice_range(Len(sq), s + 1, e)

slice_index_RangeFromExclusiveToInclusive(sq, s, e) ==
    IF s = IndexMax THEN Panic(FromMax, 0, 0) ELSE
    IF e = IndexMax THEN Panic(ToMax, 0, 0) ELSE
    slice_range(Len(sq), s + 1, e + 1)

slice_index_mut_RangeFromExclusiveToInclusive(sq, s, e) ==
    IF s = IndexMax THEN Panic(FromMax, 0, 0) ELSE
    IF e = IndexMax THEN Panic(ToMax, 0, 0) ELSE
    slice_range(Len(sq), s + 1, e + 1)

str_index_RangeFromExclusiveToInclusive(sq, s, e) ==
    IF s = IndexMax THEN Panic(FromMax, 0, 0) ELSE
    IF e = IndexMax THEN Panic(ToMax, 0, 0) ELSE
    str_range(sq, s + 1, e + 1)

str_index_mut_RangeFromExclusiveToInclusive(sq, s, e) ==
    IF s = IndexMax THEN Panic(FromMax, 0, 0) ELSE
    IF e = IndexMax THEN Panic(ToMax, 0, 0) ELSE
    str_range(sq, s + 1, e + 1)

\* &self[..][index]
String_index_RangeFromExclusiveToInclusive(sq, s, e) ==
    str_index_RangeFromExclusiveToInclusive(sq, s, e)

\* &self[..][index]
String_index_mut_RangeFromExclusiveToInclusive(sq, s, e) ==
    str_index_mut_RangeFromExclusiveToInclusive(sq, s, e)

\* Index::index(&**self, index)
Vec_index_RangeFromExclusiveToInclusive(sq, s, e) ==
    slice_index_RangeFromExclusiveToInclusive(sq, s, e)

\* IndexMut::index_mut(&mut **self, index)
Vec_index_mut_RangeFromExclusiveToInclusive(sq, s, e) ==
    slice_index_mut_RangeFromExclusiveToInclusive(sq, s, e)


\* Index and IndexMut of RangeFromExclusiveToExclusive<usize>.
\* The view taken without the guard on start.
slice_index_RangeFromExclusiveToExclusive_no_guard(sq, s, e) ==
    slice_range(Len(sq), s + 1, e)

\* The view taken up to end, end included.
slice_index_RangeFromExclusiveToExclusive_end_included(sq, s, e) ==
    IF s = IndexMax THEN Panic(FromMax, 0, 0) ELSE
    slice_range(Len(sq), s + 1, e + 1)

slice_index_RangeFromExclusiveToExclusive(sq, s, e) ==
    IF s = IndexMax THEN Panic(FromMax, 0, 0) ELSE
    slice_range(Len(sq), s + 1, e)

slice_index_mut_RangeFromExclusiveToExclusive(sq, s, e) ==
    IF s = IndexMax THEN Panic(FromMax, 0, 0) ELSE
    slice_range(Len(sq), s + 1, e)

str_index_RangeFromExclusiveToExclusive(sq, s, e) ==
    IF s = IndexMax THEN Panic(FromMax, 0, 0) ELSE
    str_range(sq, s + 1, e)

str_index_mut_RangeFromExclusiveToExclusive(sq, s, e) ==
    IF s = IndexMax THEN Panic(FromMax, 0, 0) ELSE
    str_range(sq, s + 1, e)

\* &self[..][index]
String_index_RangeFromExclusiveToExclusive(sq, s, e) ==
    str_index_RangeFromExclusiveToExclusive(sq, s, e)

\* &self[..][index]
String_index_mut_RangeFromExclusiveToExclusive(sq, s, e) ==
    str_index_mut_RangeFromExclusiveToExclusive(sq, s, e)

\* Index::index(&**self, index)
Vec_index_RangeFromExclusiveToExclusive(sq, s, e) ==
    slice_index_RangeFromExclusiveToExclusive(sq, s, e)

\* IndexMut::index_mut(&mut **self, index)
Vec_index_mut_RangeFromExclusiveToExclusive(sq, s, e) ==
    slice_index_mut_RangeFromExclusiveToExclusive(sq, s, e)

\* Which of Index and IndexMut exist: CStr has Index<RangeFromExclusive>
\* only.
Implemented(sk, k, m) ==
    sk = "CStr" => (k = "from" /\ m = "index")

index(sk, sq, k, s, e) ==
    CASE sk = "slice" ->
             (CASE k = "from" -> slice_index_RangeFromExclusive(sq, s)
                [] k = "inclusive" ->
                       slice_index_RangeFromExclusiveToInclusive(sq, s, e)
                [] k = "exclusive" ->
                       slice_index_RangeFromExclusiveToExclusive(sq, s, e))
      [] sk = "Vec" ->
             (CASE k = "from" -> Vec_index_RangeFromExclusive(sq, s)
                [] k = "inclusive" ->
                       Vec_index_RangeFromExclusiveToInclusive(sq, s, e)
                [] k = "exclusive" ->
                       Vec_index_RangeFromExclusiveToExclusive(sq, s, e))
      [] sk = "str" ->
             (CASE k = "from" -> str_index_RangeFromExclusive(sq, s)
                [] k = "inclusive" ->
                       str_index_RangeFromExclusiveToInclusive(sq, s, e)
                [] k = "exclusive" ->
                       str_index_RangeFromExclusiveToExclusive(sq, s, e))
      [] sk = "String" ->
             (CASE k = "from" -> String_index_RangeFromExclusive(sq, s)
                [] k = "inclusive" ->
                       String_index_RangeFromExclusiveToInclusive(sq, s, e)
                [] k = "exclusive" ->
                       String_index_RangeFromExclusiveToExclusive(sq, s, e))
      [] sk = "CStr" -> CStr_index_RangeFromExclusive(sq, s)

index_mut(sk, sq, k, s, e) ==
    CASE sk = "slice" ->
             (CASE k = "from" -> slice_index_mut_RangeFromExclusive(sq, s)
                [] k = "inclusive" ->
                       slice_index_mut_RangeFromExclusiveToInclusive(sq, s, e)
                [] k = "exclusive" ->
                       slice_index_mut_RangeFromExclusiveToExclusive(sq, s, e))
      [] sk = "Vec" ->
             (CASE k = "from" -> Vec_index_mut_RangeFromExclusive(sq, s)
                [] k = "inclusive" ->
                       Vec_index_mut_RangeFromExclusiveToInclusive(sq, s, e)
                [] k = "exclusive" ->
                       Vec_index_mut_RangeFromExclusiveToExclusive(sq, s, e))
      [] sk = "str" ->
             (CASE k = "from" -> str_index_mut_RangeFromExclusive(sq, s)
                [] k = "inclusive" ->
                       str_index_mut_RangeFromExclusiveToInclusive(sq, s, e)
                [] k = "exclusive" ->
                       str_index_mut_RangeFromExclusiveToExclusive(sq, s, e))
      [] sk = "String" ->
             (CASE k = "from" -> String_index_mut_RangeFromExclusive(sq, s)
                [] k = "inclusive" ->
                       String_index_mut_RangeFromExclusiveToInclusive(sq, s, e)
                [] k = "exclusive" ->
                       String_index_mut_RangeFromExclusiveToExclusive(sq, s, e))

(***************************************************************************)
(* An indexing program: it holds a sequence and a range over usize (kind,  *)
(* start, end), indexes the sequence by the range, immutably or mutably,   *)
(* and assigns through the mutable view.  ret is the contents of the view  *)
(* (of an assignment: the value assigned), arg the offset assigned to.     *)
(***************************************************************************)
\* The elements the view r of sq holds.
Contents(sq, r) == IF r.panic THEN << >> ELSE SubSeq(sq, r.lo + 1, r.hi)

InitIndex ==
    /\ seqKind \in SeqKinds
    /\ seq \in Seqs(seqKind)
    /\ prevSeq = seq
    /\ res = View(0, 0)
    /\ NoWire
    /\ borrowed = FALSE
    /\ kind \in RangeKinds
    /\ Implemented(seqKind, kind, "index")
    /\ ty = "narrow"
    /\ start \in IndexArgs
    /\ end \in IF kind = "from" THEN {0} ELSE IndexArgs
    /\ op = "new"
    /\ arg = 0
    /\ ret = None
    /\ prevStart = start
    /\ prevEnd = end
    /\ sawNone = FALSE
    /\ after = FALSE
    /\ ub = FALSE
    /\ panicked = FALSE
    /\ orig = << >>
    /\ trace = << >>
    /\ traceBack = << >>

\* The effect of an indexing expression with result r that leaves sq in
\* the sequence.
Indexed(name, i, r, sq, out, p) ==
    /\ res' = r
    /\ seq' = sq
    /\ prevSeq' = seq
    /\ ret' = out
    /\ panicked' = p
    /\ op' = name
    /\ arg' = i
    /\ prevStart' = start
    /\ prevEnd' = end
    /\ UNCHANGED <<kind, ty, start, end, sawNone, after, ub,
                 orig, trace, traceBack>>
    /\ UNCHANGED <<seqKind, borrowed>>
    /\ UNCHANGED serdeVars

\* &seq[range]
CallIndex ==
    /\ Implemented(seqKind, kind, "index")
    /\ LET r == index(seqKind, seq, kind, start, end)
       IN  Indexed("index", 0, r, seq, Contents(seq, r), r.panic)

\* &mut seq[range]
CallIndexMut ==
    /\ Implemented(seqKind, kind, "index_mut")
    /\ LET r == index_mut(seqKind, seq, kind, start, end)
       IN  Indexed("index_mut", 0, r, seq, Contents(seq, r), r.panic)

\* seq[range][i] = v on a slice or a Vec: the assignment panics when the
\* indexing does or when the view has no offset i.
WriteThrough ==
    /\ seqKind \in {"slice", "Vec"}
    /\ \E i \in 0 .. MaxLen : \E v \in {0, 1} :
           LET r == index_mut(seqKind, seq, kind, start, end)
           IN  IF ~r.panic /\ i < r.hi - r.lo
               THEN Indexed("write", i, r,
                            [seq EXCEPT ![r.lo + i + 1] = v], Some(v), FALSE)
               ELSE Indexed("write", i, r, seq, Some(v), TRUE)

NextIndex == CallIndex \/ CallIndexMut \/ WriteThrough

SpecIndex == InitIndex /\ [][NextIndex]_vars

(***************************************************************************)
(* Properties of indexing.                                                 *)
(***************************************************************************)
\* The elements of sq at the 0-based positions a, a + 1, ..., b, in order
\* (none when a > b).
Positions(sq, a, b) == [i \in 1 .. (b - a + 1) |-> sq[a + i]]

\* C14 as stated: a slice, str, Vec or String of length L indexed by
\* RangeFromExclusive{start} gives exactly the elements at the positions
\* start+1 .. L-1 whenever start < L, and panics whenever start >= L.
C14_FromIndexIsTail ==
    (op = "index" /\ kind = "from" /\ seqKind # "CStr") =>
        IF start < Len(seq)
        THEN /\ ~res.panic
             /\ SameSeq(ret, Positions(seq, start + 1, Len(seq) - 1))
        ELSE res.panic

\* C14 amended: the same for a slice or Vec; a str or String gives the
\* bytes at the positions start+1 .. L-1 whenever start < L and the byte at
\* start+1, if there is one, begins a character, and panics otherwise.
C14_FromIndexIsTailOnCharBoundary ==
    (op = "index" /\ kind = "from" /\ seqKind # "CStr") =>
        LET L == Len(seq)
            inside == /\ seqKind \in {"str", "String"}
                      /\ start + 1 < L
                      /\ seq[start + 2] = 3
        IN  IF start < L /\ ~inside
            THEN /\ ~res.panic
                 /\ res.lo = start + 1
                 /\ res.hi = L
                 /\ SameSeq(ret, Positions(seq, start + 1, L - 1))
            ELSE res.panic

\* A str was indexed from inside a two-byte character and panicked,
\* although start < L.
C14_Witness ==
    /\ op = "index"
    /\ kind = "from"
    /\ seqKind = "str"
    /\ start + 1 < Len(seq)
    /\ seq[start + 2] = 3
    /\ res.panic

\* C15: for each of the three range types and every kind of sequence,
\* length and end, indexing (immutably or mutably) with
\* start == usize::MAX panics with the crate's own message and changes
\* nothing; start + 1 is never computed with an overflow.
C15_StartMaxPanics ==
    op \in {"index", "index_mut", "write"} =>
        /\ res.msg # Overflow.msg
        /\ start = IndexMax =>
               /\ res.panic
               /\ res.msg = FromMax
               /\ panicked
               /\ seq = prevSeq

\* A String was indexed mutably by a RangeFromExclusiveToExclusive with
\* start == usize::MAX.
C15_Witness ==
    /\ op = "index_mut"
    /\ kind = "exclusive"
    /\ seqKind = "String"
    /\ start = IndexMax
    /\ end <= Len(seq)
    /\ res.panic

\* C16: a slice of length L indexed by RangeFromExclusiveToInclusive
\* {start, end} gives exactly the elements at the positions start+1 .. end
\* whenever start <= end < L (none when start = end), and panics if start
\* or end is usize::MAX or if end >= L; end + 1 never overflows.
C16_InclusiveIndexOfSlice ==
    (op = "index" /\ kind = "inclusive" /\ seqKind = "slice") =>
        /\ (start <= end /\ end < Len(seq)) =>
               /\ ~res.panic
               /\ SameSeq(ret, Positions(seq, start + 1, end))
               /\ Len(ret) = end - start
        /\ (start = IndexMax \/ end = IndexMax \/ end >= Len(seq)) =>
               res.panic
        /\ (end = IndexMax /\ start # IndexMax) => res.msg = ToMax
        /\ res.msg # Overflow.msg

\* A slice was indexed by a RangeFromExclusiveToInclusive that selects at
\* least one element.
C16_Witness ==
    /\ op = "index"
    /\ kind = "inclusive"
    /\ seqKind = "slice"
    /\ start < end
    /\ end < Len(seq)
    /\ ~res.panic
    /\ Len(ret) > 0

\* C17: a slice of length L indexed by RangeFromExclusiveToExclusive
\* {start, end} with start # usize::MAX gives the view [start+1, end)
\* whenever start + 1 <= end <= L and panics in every other case; end is
\* used as it is, so end == usize::MAX panics in the slice's own range
\* check, not in a guard of the crate.
C17_ExclusiveIndexOfSlice ==
    (op = "index" /\ kind = "exclusive" /\ seqKind = "slice"
       /\ start # IndexMax) =>
        /\ IF start + 1 <= end /\ end <= Len(seq)
           THEN /\ ~res.panic
                /\ res.lo = start + 1
                /\ res.hi = end
                /\ SameSeq(ret, Positions(seq, start + 1, end - 1))
           ELSE res.panic
        /\ end = IndexMax =>
               /\ res.panic
               /\ res.msg \notin {FromMax, ToMax, Overflow.msg}

\* A slice was indexed by a RangeFromExclusiveToExclusive that selects at
\* least one element, up to the end of the slice.
C17_Witness ==
    /\ op = "index"
    /\ kind = "exclusive"
    /\ seqKind = "slice"
    /\ start + 1 < end
    /\ end = Len(seq)
    /\ ~res.panic
    /\ Len(ret) > 0

\* C18 as stated: a CStr of B bytes (terminator included) indexed by
\* RangeFromExclusive{start} gives the bytes from position start+1 through
\* the terminator whenever start + 1 < B, a non-empty view that ends with
\* the terminator; whenever start + 1 >= B it panics with the out-of-bounds
\* message that cites B as the length and start as the index.
C18_CStrIndex ==
    (op = "index" /\ seqKind = "CStr") =>
        LET B == Len(seq)
        IN  IF start + 1 < B
            THEN /\ ~res.panic
                 /\ SameSeq(ret, Positions(seq, start + 1, B - 1))
                 /\ Len(ret) > 0
                 /\ ret[Len(ret)] = 0
            ELSE /\ res.panic
                 /\ res.msg = OutOfBounds
                 /\ res.len = B
                 /\ res.index = start

\* C18 amended: the same, except that with start == usize::MAX the panic
\* is the one of the guard on start, with the maximum-usize message, and
\* cites no length and no index.
C18_CStrIndexOrStartMax ==
    (op = "index" /\ seqKind = "CStr") =>
        LET B == Len(seq)
        IN  IF start + 1 < B
            THEN /\ ~res.panic
                 /\ SameSeq(ret, Positions(seq, start + 1, B - 1))
                 /\ Len(ret) > 0
                 /\ ret[Len(ret)] = 0
            ELSE IF start = IndexMax
            THEN /\ res.panic
                 /\ res.msg = FromMax
            ELSE /\ res.panic
                 /\ res.msg = OutOfBounds
                 /\ res.len = B
                 /\ res.index = start

\* A CStr was indexed with start == usize::MAX and panicked in the guard.
C18_Witness ==
    /\ op = "index"
    /\ seqKind = "CStr"
    /\ start = IndexMax
    /\ res.panic
    /\ res.msg = FromMax

\* C19: for every kind of sequence that has index_mut and each of the three
\* range types, index_mut selects the positions and panics in the cases of
\* index; Vec and String behave as slice and str; an assignment through
\* the mutable view at offset i changes the element at position
\* start + 1 + i only and leaves every other element and the length.
C19_IndexMutIsIndex ==
    /\ op \in {"index_mut", "write"} =>
           res = index(seqKind, prevSeq, kind, start, end)
    /\ (op \in {"index", "index_mut"} /\ seqKind = "Vec") =>
           res = IF op = "index"
                 THEN index("slice", seq, kind, start, end)
                 ELSE index_mut("slice", seq, kind, start, end)
    /\ (op \in {"index", "index_mut"} /\ seqKind = "String") =>
           res = IF op = "index"
                 THEN index("str", seq, kind, start, end)
                 ELSE index_mut("str", seq, kind, start, end)
    /\ op \in {"index", "index_mut"} => seq = prevSeq
    /\ (op = "write" /\ panicked) => seq = prevSeq
    /\ (op = "write" /\ ~panicked) =>
           /\ Len(seq) = Len(prevSeq)
           /\ start + 1 + arg < Len(seq)
           /\ seq[start + 1 + arg + 1] = ret[1]
           /\ \A j \in 1 .. Len(seq) :
                  j # start + 1 + arg + 1 => seq[j] = prevSeq[j]

\* An element of a Vec was changed through the mutable view of a
\* RangeFromExclusiveToInclusive, at an offset other than the first.
C19_Witness ==
    /\ op = "write"
    /\ ~panicked
    /\ seqKind = "Vec"
    /\ kind = "inclusive"
    /\ arg > 0
    /\ seq # prevSeq

(***************************************************************************)
(* RangeBounds (src/src/impl_range_bounds.rs).  A Bound<&T> is a record of *)
(* its variant and of the value behind the reference it carries.  When Idx *)
(* is a reference (borrowed), start and end are the values referred to.    *)
(***************************************************************************)
Excluded(x) == [bound |-> "Excluded", of |-> Some(x)]
Included(x) == [bound |-> "Included", of |-> Some(x)]
Unbounded == [bound |-> "Unbounded", of |-> None]

\* impl<T> RangeBounds<T> for RangeFromExclusive<T>
RangeFromExclusive_start_bound(s) == Excluded(s)
RangeFromExclusive_end_bound(s) == Unbounded

\* impl<'a, T> RangeBounds<T> for RangeFromExclusive<&'a T>
RangeFromExclusive_ref_start_bound(s) == Excluded(s)
RangeFromExclusive_ref_end_bound(s) == Unbounded

\* The end bound taken for exclusive.
RangeFromExclusiveToInclusive_end_bound_excluded(s, e) == Excluded(e)

\* impl<T> RangeBounds<T> for RangeFromExclusiveToInclusive<T>
RangeFromExclusiveToInclusive_start_bound(s, e) == Excluded(s)
RangeFromExclusiveToInclusive_end_bound(s, e) == Included(e)

\* impl<'a, T> RangeBounds<T> for RangeFromExclusiveToInclusive<&'a T>
RangeFromExclusiveToInclusive_ref_start_bound(s, e) == Excluded(s)
RangeFromExclusiveToInclusive_ref_end_bound(s, e) == Included(e)

\* impl<T> RangeBounds<T> for RangeFromExclusiveToExclusive<T>
RangeFromExclusiveToExclusive_start_bound(s, e) == Excluded(s)
RangeFromExclusiveToExclusive_end_bound(s, e) == Excluded(e)

\* impl<'a, T> RangeBounds<T> for RangeFromExclusiveToExclusive<&'a T>
RangeFromExclusiveToExclusive_ref_start_bound(s, e) == Excluded(s)
RangeFromExclusiveToExclusive_ref_end_bound(s, e) == Excluded(e)

start_bound(k, b, s, e) ==
    CASE k = "from" -> IF b THEN RangeFromExclusive_ref_start_bound(s)
                            ELSE RangeFromExclusive_start_bound(s)
      [] k = "inclusive" ->
             IF b THEN RangeFromExclusiveToInclusive_ref_start_bound(s, e)
                  ELSE RangeFromExclusiveToInclusive_start_bound(s, e)
      [] k = "exclusive" ->
             IF b THEN RangeFromExclusiveToExclusive_ref_start_bound(s, e)
                  ELSE RangeFromExclusiveToExclusive_start_bound(s, e)

end_bound(k, b, s, e) ==
    CASE k = "from" -> IF b THEN RangeFromExclusive_ref_end_bound(s)
                            ELSE RangeFromExclusive_end_bound(s)
      [] k = "inclusive" ->
             IF b THEN RangeFromExclusiveToInclusive_ref_end_bound(s, e)
                  ELSE RangeFromExclusiveToInclusive_end_bound(s, e)
      [] k = "exclusive" ->
             IF b THEN RangeFromExclusiveToExclusive_ref_end_bound(s, e)
                  ELSE RangeFromExclusiveToExclusive_end_bound(s, e)

\* A range of any of the three types, over T or over &T.
InitBounds ==
    /\ kind \in RangeKinds
    /\ borrowed \in BOOLEAN
    /\ ty \in Targets
    /\ start \in T
    /\ end \in IF kind = "from" THEN {0} ELSE T
    /\ op = "new"
    /\ arg = 0
    /\ ret = None
    /\ prevStart = start
    /\ prevEnd = end
    /\ sawNone = FALSE
    /\ after = FALSE
    /\ ub = FALSE
    /\ panicked = FALSE
    /\ orig = << >>
    /\ trace = << >>
    /\ traceBack = << >>
    /\ seqKind = "none"
    /\ seq = << >>
    /\ prevSeq = << >>
    /\ res = View(0, 0)
    /\ NoWire

\* An accessor of RangeBounds (&self) that answered b.
Queried(name, b) ==
    /\ ret' = b
    /\ op' = name
    /\ arg' = 0
    /\ prevStart' = start
    /\ prevEnd' = end
    /\ panicked' = FALSE
    /\ UNCHANGED <<kind, ty, start, end, sawNone, after, ub,
                 orig, trace, traceBack>>
    /\ UNCHANGED indexVars
    /\ UNCHANGED serdeVars

CallStartBound ==
    Queried("start_bound", start_bound(kind, borrowed, start, end))

CallEndBound ==
    Queried("end_bound", end_bound(kind, borrowed, start, end))

NextBounds == CallStartBound \/ CallEndBound

SpecBounds == InitBounds /\ [][NextBounds]_vars

\* C20: start_bound() is Excluded(start) for all three range types;
\* end_bound() is Unbounded for RangeFromExclusive, Included(end) for
\* RangeFromExclusiveToInclusive and Excluded(end) for
\* RangeFromExclusiveToExclusive; the same when Idx is a reference; neither
\* accessor changes start or end.
C20_Bounds ==
    /\ op = "start_bound" =>
           ret = [bound |-> "Excluded", of |-> <<start>>]
    /\ op = "end_bound" =>
           ret = CASE kind = "from" -> [bound |-> "Unbounded", of |-> << >>]
                   [] kind = "inclusive" ->
                          [bound |-> "Included", of |-> <<end>>]
                   [] kind = "exclusive" ->
                          [bound |-> "Excluded", of |-> <<end>>]
    /\ op \in {"start_bound", "end_bound"} =>
           start = prevStart /\ end = prevEnd

\* end_bound() was asked of a RangeFromExclusiveToInclusive<&T> whose
\* bounds differ.
C20_Witness ==
    /\ op = "end_bound"
    /\ kind = "inclusive"
    /\ borrowed
    /\ start # end
    /\ ret.bound = "Included"
    /\ ret.of = <<end>>

(***************************************************************************)
(* Properties of the bounded iterators under any sequence of calls.        *)
(***************************************************************************)
\* Any interleaving of next() and next_back() calls on a bounded range.
SpecBothEnds == InitDrain /\ [][DrainNext \/ DrainBack]_vars

\* The number of values in the range with the fields s and e.
Length(k, s, e) ==
    IF k = "inclusive" THEN (IF s < e THEN e - s ELSE 0)
                       ELSE (IF s + 1 < e THEN e - s - 1 ELSE 0)

\* C25 as stated: under any interleaving of next() and next_back() the
\* values next() yields ascend from start + 1, the values next_back()
\* yields descend from the largest value, every value taken from the front
\* is smaller than every value taken from the back, and once a call yields
\* nothing the number of values yielded is the initial length.
C25_BothEndsYieldEachValueOnce ==
    LET top == IF kind = "inclusive" THEN orig[2] ELSE orig[2] - 1
    IN  /\ \A i \in 1 .. Len(trace) : trace[i] = orig[1] + i
        /\ \A i \in 1 .. Len(traceBack) : traceBack[i] = top + 1 - i
        /\ (trace # << >> /\ traceBack # << >>) =>
               trace[Len(trace)] < traceBack[Len(traceBack)]
        /\ (op \in {"next", "next_back"} /\ ret = None) =>
               Len(trace) + Len(traceBack) = Length(kind, orig[1], orig[2])

\* C24: on both bounded range types no call of next, next_back, nth,
\* nth_back, size_hint or len fails, whatever start, end and n are: no
\* call panics, and every unchecked step forward is taken from a value
\* below T::MAX and every unchecked step backward from a value above
\* T::MIN.
C24_NoOperationFails ==
    /\ ~ub
    /\ op \in FourOps \cup {"size_hint", "len"} => ~panicked
    /\ (op \in {"next", "nth"} /\ ret # None) => prevStart + arg < TMax
    /\ (op \in {"next_back", "nth_back"} /\ ret # None) =>
           prevEnd - arg > TMin

\* next() stepped from T::MAX - 1 to T::MAX, the last value an unchecked
\* step forward can reach.
C24_Witness ==
    /\ op = "next"
    /\ prevStart = TMax - 1
    /\ ret = Some(TMax)
    /\ ~ub

\* What count >= 1 consecutive calls of next() (back = FALSE) or of
\* next_back() (back = TRUE) leave and what the last of them returns.
RECURSIVE Repeated(_, _, _, _, _, _)
Repeated(back, k, t, s, e, count) ==
    LET once == IF back THEN next_back(k, t, s, e) ELSE next(k, t, s, e)
    IN  IF count = 1
        THEN once
        ELSE UNION {Repeated(back, k, t, o.start, o.end, count - 1) :
                        o \in once}

\* C26 as stated: for every start and end (empty and reversed ranges
\* included) and every n, nth(n) returns what n + 1 consecutive next()
\* calls return and leaves the same start and end, and nth_back(n) does so
\* with respect to n + 1 consecutive next_back() calls.
C26_NthIsRepeatedNext ==
    op \in {"nth", "nth_back"} =>
        \E c \in Repeated(op = "nth_back", kind, ty, prevStart, prevEnd,
                          arg + 1) :
            /\ c.ret = ret
            /\ c.start = start
            /\ c.end = end

\* C27 as stated: on a range that is empty when the call is made (start >=
\* end for the inclusive upper bound, fewer than two steps from start to
\* end for the exclusive one, reversed ranges included) next(), next_back(),
\* nth(n) and nth_back(n) yield nothing and leave start and end.
C27_EmptyRangeIsLeftAlone ==
    (op \in FourOps /\ Length(kind, prevStart, prevEnd) = 0) =>
        /\ ret = None
        /\ start = prevStart
        /\ end = prevEnd

\* C28 as stated: the size estimate of RangeFromExclusiveToExclusive is
\* truthful for every element type: whenever size_hint() reports a lower
\* bound above zero, next() and next_back() yield a value, and the lower
\* bound never exceeds the number of values repeated next() yields.
C28_ExclusiveSizeHintIsTruthful ==
    kind = "exclusive" =>
        /\ (op \in {"next", "next_back"}
              /\ RangeFromExclusiveToExclusive_size_hint(
                     ty, prevStart, prevEnd)[1] > 0) =>
               ret # None
        /\ \A f \in FwdSeqs(kind, ty, start, end) :
               RangeFromExclusiveToExclusive_size_hint(ty, start, end)[1]
                   <= Len(f)

\* C29: on both bounded range types a call of next, next_back, nth or
\* nth_back made with start <= end (inclusive upper bound), respectively
\* start < end (exclusive upper bound), leaves start <= end, respectively
\* start < end: from such a range no sequence of calls makes the cursors
\* cross, nor, for the exclusive upper bound, meet.
C29_CursorsNeverCross ==
    op \in FourOps =>
        /\ (kind = "inclusive" /\ prevStart <= prevEnd) => start <= end
        /\ (kind = "exclusive" /\ prevStart < prevEnd) => start < end

\* nth_back() overshot on a RangeFromExclusiveToExclusive with values left
\* and stopped end one step above start.
C29_Witness ==
    /\ kind = "exclusive"
    /\ op = "nth_back"
    /\ prevStart + 1 < prevEnd
    /\ ret = None
    /\ start = prevStart
    /\ end = start + 1

(***************************************************************************)
(* Termination: a consumer that keeps calling next, next_back, nth and     *)
(* nth_back on a bounded range, in any order and with any n.               *)
(***************************************************************************)
CallAny == CallNext \/ CallNextBack \/ CallNth \/ CallNthBack

SpecKeepCalling == Init /\ [][CallAny]_vars /\ WF_vars(CallAny)

\* A call that yielded a value took exactly 1 (next, next_back) or n + 1
\* (nth, nth_back) values off the range, and no call adds a value.
Shrinks ==
    op \in FourOps =>
        LET was == Length(kind, prevStart, prevEnd)
            now == Length(kind, start, end)
            took == IF op \in {"next", "next_back"} THEN 1 ELSE arg + 1
        IN  /\ ret # None => (took <= was /\ now = was - took)
            /\ ret = None => now <= was

\* C30: on both bounded range types (T is fixed-width) every sequence of
\* next, next_back, nth and nth_back calls reaches exhaustion: each call
\* that yields a value shortens the range by 1, respectively n + 1, so the
\* yielding calls are at most as many as the initial length, and from
\* some call on every call yields nothing.
C30_EveryCallSequenceExhausts == [](Shrinks) /\ <>[](Exhausted /\ ret = None)

\* nth(n) with n > 0 yielded a value and shortened the range by n + 1.
C30_Witness ==
    /\ op = "nth"
    /\ arg > 0
    /\ ret # None
    /\ Length(kind, start, end)
           = Length(kind, prevStart, prevEnd) - (arg + 1)

(***************************************************************************)
(* Serde (src/src/impl_serde.rs).  The serialized form is what a           *)
(* self-describing format carries: a struct or map, a sequence of entries  *)
(* [key, val], or a sequence of values.  A key is Str(s) or NotStr, a key  *)
(* that is no string (next_key then fails with the format's invalid-type   *)
(* error).  A value is Good(v), which decodes as the index type to v, or   *)
(* Bad, which does not (next_value and next_element then fail likewise).   *)
(* Deserializing gives Ok(start, end) or Err(error, field, n); a           *)
(* RangeFromExclusive has no end and carries 0 there.                      *)
(***************************************************************************)
\* Most entries or elements in a form that is given to deserialize.
MaxEntries == 3

Good(v) == [ok |-> TRUE, v |-> v]
Bad == [ok |-> FALSE, v |-> 0]
Str(s) == [str |-> TRUE, s |-> s]
NotStr == [str |-> FALSE, s |-> ""]
Entry(k, v) == [key |-> k, val |-> v]

Ok(s, e) ==
    [ok |-> TRUE, err |-> "", field |-> "", n |-> 0, start |-> s, end |-> e]
Err(error, f, l) ==
    [ok |-> FALSE, err |-> error, field |-> f, n |-> l, start |-> 0,
     end |-> 0]

\* The name given to serialize_struct and deserialize_struct.
StructName(k) ==
    CASE k = "from" -> "RangeFromExclusive"
      [] k = "inclusive" -> "RangeFromExclusiveToInclusive"
      [] k = "exclusive" -> "RangeFromExclusiveToExclusive"

\* const FIELDS
FIELDS(k) == IF k = "from" THEN <<"start">> ELSE <<"start", "end">>

Struct(k, entries) ==
    [form |-> "struct", name |-> StructName(k), len |-> Len(entries),
     body |-> entries]

RangeFromExclusive_serialize(s) ==
    Struct("from", <<Entry(Str("start"), Good(s))>>)

\* Mutant: each field is written under the other's name.
RangeFromExclusiveToInclusive_serialize_crossed(s, e) ==
    Struct("inclusive", <<Entry(Str("start"), Good(e)),
                        Entry(Str("end"), Good(s))>>)

RangeFromExclusiveToInclusive_serialize(s, e) ==
    Struct("inclusive", <<Entry(Str("start"), Good(s)),
                        Entry(Str("end"), Good(e))>>)

RangeFromExclusiveToExclusive_serialize(s, e) ==
    Struct("exclusive", <<Entry(Str("start"), Good(s)),
                        Entry(Str("end"), Good(e))>>)

serialize(k, s, e) ==
    CASE k = "from" -> RangeFromExclusive_serialize(s)
      [] k = "inclusive" -> RangeFromExclusiveToInclusive_serialize(s, e)
      [] k = "exclusive" -> RangeFromExclusiveToExclusive_serialize(s, e)

\* impl Deserialize for RangeFromExclusive: Field's visit_str.
RangeFromExclusive_Field_visit_str(value) ==
    CASE value = "start" -> "Start"
      [] OTHER -> "unknown_field"

\* Field::deserialize: deserialize_identifier with a visitor that has only
\* visit_str.
RangeFromExclusive_Field_deserialize(key) ==
    IF key.str THEN RangeFromExclusive_Field_visit_str(key.s)
    ELSE "invalid_type"

RangeFromExclusiveVisitor_visit_seq(elements) ==
    IF Len(elements) < 1 THEN Err("invalid_length", "", 0)
    ELSE IF ~elements[1].ok THEN Err("invalid_type", "", 0)
    ELSE Ok(elements[1].v, 0)

RECURSIVE RangeFromExclusiveVisitor_visit_map_loop(_, _, _)
RangeFromExclusiveVisitor_visit_map_loop(entries, i, s) ==
    IF i > Len(entries)
    THEN IF s = None THEN Err("missing_field", "start", 0)
         ELSE Ok(s[1], 0)
    ELSE LET key ==
                 RangeFromExclusive_Field_deserialize(entries[i].key)
             val == entries[i].val
         IN  CASE key = "invalid_type" -> Err("invalid_type", "", 0)
               [] key = "unknown_field" ->
                      Err("unknown_field", entries[i].key.s, 0)
               [] key = "Start" ->
                      (IF s # None THEN Err("duplicate_field", "start", 0)
                       ELSE IF ~val.ok THEN Err("invalid_type", "", 0)
                       ELSE RangeFromExclusiveVisitor_visit_map_loop(
                                entries, i + 1, Some(val.v)))

RangeFromExclusiveVisitor_visit_map(entries) ==
    RangeFromExclusiveVisitor_visit_map_loop(entries, 1, None)

RangeFromExclusive_deserialize(w) ==
    IF w.form = "seq"
    THEN LET r == RangeFromExclusiveVisitor_visit_seq(w.body)
         IN  IF r.ok /\ Len(w.body) > 1
             THEN Err("trailing_elements", "", Len(w.body))
             ELSE r
    ELSE RangeFromExclusiveVisitor_visit_map(w.body)

\* impl Deserialize for RangeFromExclusiveToInclusive: Field's visit_str.
RangeFromExclusiveToInclusive_Field_visit_str(value) ==
    CASE value = "start" -> "Start"
      [] value = "end" -> "End"
      [] OTHER -> "unknown_field"

\* Field::deserialize: deserialize_identifier with a visitor that has only
\* visit_str.
RangeFromExclusiveToInclusive_Field_deserialize(key) ==
    IF key.str THEN RangeFromExclusiveToInclusive_Field_visit_str(key.s)
    ELSE "invalid_type"

\* visit_seq: next_element for start, then for end.
RangeFromExclusiveToInclusiveVisitor_visit_seq(elements) ==
    IF Len(elements) < 1 THEN Err("invalid_length", "", 0)
    ELSE IF ~elements[1].ok THEN Err("invalid_type", "", 0)
    ELSE IF Len(elements) < 2 THEN Err("invalid_length", "", 1)
    ELSE IF ~elements[2].ok THEN Err("invalid_type", "", 0)
    ELSE Ok(elements[1].v, elements[2].v)

\* visit_map's `while let Some(key) = map.next_key()` from entry i on, with
\* the Options start and end, and the checks that follow the loop.
RECURSIVE RangeFromExclusiveToInclusiveVisitor_visit_map_loop(_, _, _, _)
RangeFromExclusiveToInclusiveVisitor_visit_map_loop(entries, i, s, e) ==
    IF i > Len(entries)
    THEN IF s = None THEN Err("missing_field", "start", 0)
         ELSE IF e = None THEN Err("missing_field", "end", 0)
         ELSE Ok(s[1], e[1])
    ELSE LET key ==
                 RangeFromExclusiveToInclusive_Field_deserialize(entries[i].key)
             val == entries[i].val
         IN  CASE key = "invalid_type" -> Err("invalid_type", "", 0)
               [] key = "unknown_field" ->
                      Err("unknown_field", entries[i].key.s, 0)
               [] key = "Start" ->
                      (IF s # None THEN Err("duplicate_field", "start", 0)
                       ELSE IF ~val.ok THEN Err("invalid_type", "", 0)
                       ELSE RangeFromExclusiveToInclusiveVisitor_visit_map_loop(
                                entries, i + 1, Some(val.v), e))
               [] key = "End" ->
                      (IF e # None THEN Err("duplicate_field", "end", 0)
                       ELSE IF ~val.ok THEN Err("invalid_type", "", 0)
                       ELSE RangeFromExclusiveToInclusiveVisitor_visit_map_loop(
                                entries, i + 1, s, Some(val.v)))

\* Mutant: keys that are not fields are skipped.
RangeFromExclusiveToInclusiveVisitor_visit_map_skipping(entries) ==
    RangeFromExclusiveToInclusiveVisitor_visit_map_loop(
        SelectSeq(entries, LAMBDA x : x.key \in {Str("start"), Str("end")}),
        1, None, None)

RangeFromExclusiveToInclusiveVisitor_visit_map(entries) ==
    RangeFromExclusiveToInclusiveVisitor_visit_map_loop(entries, 1, None, None)

\* deserialize: deserializer.deserialize_struct(name, FIELDS, visitor).  A
\* struct or a map goes to visit_map, a sequence to visit_seq; elements that
\* visit_seq left unread make the deserializer fail.
RangeFromExclusiveToInclusive_deserialize(w) ==
    IF w.form = "seq"
    THEN LET r == RangeFromExclusiveToInclusiveVisitor_visit_seq(w.body)
         IN  IF r.ok /\ Len(w.body) > 2
             THEN Err("trailing_elements", "", Len(w.body))
             ELSE r
    ELSE RangeFromExclusiveToInclusiveVisitor_visit_map(w.body)

\* impl Deserialize for RangeFromExclusiveToExclusive: Field's visit_str.
RangeFromExclusiveToExclusive_Field_visit_str(value) ==
    CASE value = "start" -> "Start"
      [] value = "end" -> "End"
      [] OTHER -> "unknown_field"

\* Field::deserialize: deserialize_identifier with a visitor that has only
\* visit_str.
RangeFromExclusiveToExclusive_Field_deserialize(key) ==
    IF key.str THEN RangeFromExclusiveToExclusive_Field_visit_str(key.s)
    ELSE "invalid_type"

\* Mutant: a sequence that stops after start reports that nothing was read.
RangeFromExclusiveToExclusiveVisitor_visit_seq_miscounted(elements) ==
    IF Len(elements) < 1 THEN Err("invalid_length", "", 0)
    ELSE IF ~elements[1].ok THEN Err("invalid_type", "", 0)
    ELSE IF Len(elements) < 2 THEN Err("invalid_length", "", 0)
    ELSE IF ~elements[2].ok THEN Err("invalid_type", "", 0)
    ELSE Ok(elements[1].v, elements[2].v)

\* visit_seq: next_element for start, then for end.
RangeFromExclusiveToExclusiveVisitor_visit_seq(elements) ==
    IF Len(elements) < 1 THEN Err("invalid_length", "", 0)
    ELSE IF ~elements[1].ok THEN Err("invalid_type", "", 0)
    ELSE IF Len(elements) < 2 THEN Err("invalid_length", "", 1)
    ELSE IF ~elements[2].ok THEN Err("invalid_type", "", 0)
    ELSE Ok(elements[1].v, elements[2].v)

\* visit_map's `while let Some(key) = map.next_key()` from entry i on, with
\* the Options start and end, and the checks that follow the loop.
RECURSIVE RangeFromExclusiveToExclusiveVisitor_visit_map_loop(_, _, _, _)
RangeFromExclusiveToExclusiveVisitor_visit_map_loop(entries, i, s, e) ==
    IF i > Len(entries)
    THEN IF s = None THEN Err("missing_field", "start", 0)
         ELSE IF e = None THEN Err("missing_field", "end", 0)
         ELSE Ok(s[1], e[1])
    ELSE LET key ==
                 RangeFromExclusiveToExclusive_Field_deserialize(entries[i].key)
             val == entries[i].val
         IN  CASE key = "invalid_type" -> Err("invalid_type", "", 0)
               [] key = "unknown_field" ->
                      Err("unknown_field", entries[i].key.s, 0)
               [] key = "Start" ->
                      (IF s # None THEN Err("duplicate_field", "start", 0)
                       ELSE IF ~val.ok THEN Err("invalid_type", "", 0)
                       ELSE RangeFromExclusiveToExclusiveVisitor_visit_map_loop(
                                entries, i + 1, Some(val.v), e))
               [] key = "End" ->
                      (IF e # None THEN Err("duplicate_field", "end", 0)
                       ELSE IF ~val.ok THEN Err("invalid_type", "", 0)
                       ELSE RangeFromExclusiveToExclusiveVisitor_visit_map_loop(
                                entries, i + 1, s, Some(val.v)))

RangeFromExclusiveToExclusiveVisitor_visit_map(entries) ==
    RangeFromExclusiveToExclusiveVisitor_visit_map_loop(entries, 1, None, None)

\* deserialize: deserializer.deserialize_struct(name, FIELDS, visitor).  A
\* struct or a map goes to visit_map, a sequence to visit_seq; elements that
\* visit_seq left unread make the deserializer fail.
RangeFromExclusiveToExclusive_deserialize(w) ==
    IF w.form = "seq"
    THEN LET r == RangeFromExclusiveToExclusiveVisitor_visit_seq(w.body)
         IN  IF r.ok /\ Len(w.body) > 2
             THEN Err("trailing_elements", "", Len(w.body))
             ELSE r
    ELSE RangeFromExclusiveToExclusiveVisitor_visit_map(w.body)

deserialize(k, w) ==
    CASE k = "from" -> RangeFromExclusive_deserialize(w)
      [] k = "inclusive" -> RangeFromExclusiveToInclusive_deserialize(w)
      [] k = "exclusive" -> RangeFromExclusiveToExclusive_deserialize(w)

\* The keys and the values that a given form is made of.
Keys == {Str("start"), Str("end"), Str("other"), NotStr}
Tokens == {Good(0), Good(1), Bad}

\* What deserialize is given: a map of up to MaxEntries entries, or a
\* sequence of up to MaxEntries elements.
Forms(k) ==
    {[form |-> "map", name |-> StructName(k), len |-> Len(b), body |-> b] :
         b \in SeqsOver({Entry(f, v) : f \in Keys, v \in Tokens},
                        0 .. MaxEntries)}
    \cup
    {[form |-> "seq", name |-> StructName(k), len |-> Len(b), body |-> b] :
         b \in SeqsOver(Tokens, 0 .. MaxEntries)}

\* Either a range that is about to be serialized, or a form that is about to
\* be deserialized as one.
InitSerde ==
    /\ kind \in RangeKinds
    /\ ty = "narrow"
    /\ \/ /\ start \in T
          /\ end \in IF kind = "from" THEN {0} ELSE T
          /\ wire = Unwritten
       \/ /\ start = 0
          /\ end = 0
          /\ wire \in Forms(kind)
    /\ decoded = Undecoded
    /\ op = "new"
    /\ arg = 0
    /\ ret = None
    /\ prevStart = start
    /\ prevEnd = end
    /\ sawNone = FALSE
    /\ after = FALSE
    /\ ub = FALSE
    /\ panicked = FALSE
    /\ orig = << >>
    /\ trace = << >>
    /\ traceBack = << >>
    /\ NoSequence

\* range.serialize(serializer): the range is kept in orig.
DoSerialize ==
    /\ wire = Unwritten
    /\ wire' = serialize(kind, start, end)
    /\ orig' = <<start, end>>
    /\ op' = "serialize"
    /\ UNCHANGED <<kind, ty, start, end, arg, ret, prevStart, prevEnd,
                   sawNone, after, ub, panicked, trace, traceBack, decoded>>
    /\ UNCHANGED indexVars

\* Range::deserialize(deserializer) on the form in wire.
DoDeserialize ==
    /\ wire # Unwritten
    /\ op # "deserialize"
    /\ decoded' = deserialize(kind, wire)
    /\ op' = "deserialize"
    /\ UNCHANGED <<kind, ty, start, end, arg, ret, prevStart, prevEnd,
                   sawNone, after, ub, panicked, orig, trace, traceBack,
                   wire>>
    /\ UNCHANGED indexVars

NextSerde == DoSerialize \/ DoDeserialize

SpecSerde == InitSerde /\ [][NextSerde]_vars

\* The struct that serialize wrote for the range in orig.
Written(k) ==
    /\ wire.form = "struct"
    /\ wire.name = StructName(k)
    /\ wire.len = Len(FIELDS(k))
    /\ Len(wire.body) = Len(FIELDS(k))
    /\ \A i \in 1 .. Len(wire.body) :
           /\ wire.body[i].key = Str(FIELDS(k)[i])
           /\ wire.body[i].val = Good(orig[i])

\* C21: for each of the three range types and every value, serialize emits
\* a struct named after the type whose fields are start and then end (start
\* alone for RangeFromExclusive), each holding that field's value, and
\* deserializing that struct gives back a range equal to the original.
C21_SerializeThenDeserialize ==
    /\ op = "serialize" => Written(kind)
    /\ (op = "deserialize" /\ orig # << >>) =>
           /\ Written(kind)
           /\ decoded = Ok(orig[1], orig[2])
           /\ decoded.start = start
           /\ decoded.end = end

C21_Witness ==
    /\ op = "deserialize"
    /\ kind = "inclusive"
    /\ orig # << >>
    /\ orig[1] # orig[2]
    /\ decoded.ok
    /\ decoded.start = orig[1]

\* The declared fields of a range type, and how often a key names field f.
Declared(k) == {FIELDS(k)[i] : i \in 1 .. Len(FIELDS(k))}
Count(f) ==
    Cardinality({i \in 1 .. Len(wire.body) : wire.body[i].key = Str(f)})

\* Every declared field occurs exactly once and no other key occurs.
FieldsOnceEach ==
    /\ \A f \in Declared(kind) : Count(f) = 1
    /\ \A i \in 1 .. Len(wire.body) :
           /\ wire.body[i].key.str
           /\ wire.body[i].key.s \in Declared(kind)

\* The field that is reported missing: the first declared one that no key
\* names.
FirstAbsent(f) ==
    \E j \in 1 .. Len(FIELDS(kind)) :
        /\ FIELDS(kind)[j] = f
        /\ Count(f) = 0
        /\ \A h \in 1 .. j - 1 : Count(FIELDS(kind)[h]) > 0

\* The error names a defect that the record has.
NamesADefect ==
    \/ /\ decoded.err = "duplicate_field"
       /\ decoded.field \in Declared(kind)
       /\ Count(decoded.field) >= 2
    \/ /\ decoded.err = "missing_field"
       /\ FirstAbsent(decoded.field)
    \/ /\ decoded.err = "unknown_field"
       /\ \E i \in 1 .. Len(wire.body) :
              /\ wire.body[i].key.str
              /\ wire.body[i].key.s \notin Declared(kind)
              /\ wire.body[i].key.s = decoded.field

\* The value that the record gives field f, when it gives one.
Given(f, v) ==
    \E i \in 1 .. Len(wire.body) :
        wire.body[i].key = Str(f) /\ wire.body[i].val = Good(v)

Undecodable(i) ==
    LET e == wire.body[i]
    IN  \/ ~e.key.str
        \/ /\ e.key.s \in Declared(kind)
           /\ \A h \in 1 .. i - 1 : wire.body[h].key # e.key
           /\ ~e.val.ok

\* Entry i is where the record first goes wrong: an undeclared key, a field
\* that an earlier entry already gave, or something that does not decode.
Defect(i) ==
    LET e == wire.body[i]
    IN  \/ Undecodable(i)
        \/ e.key.s \notin Declared(kind)
        \/ \E h \in 1 .. i - 1 : wire.body[h].key = e.key
FirstDefect(i) ==
    /\ i \in 1 .. Len(wire.body)
    /\ Defect(i)
    /\ \A h \in 1 .. i - 1 : ~Defect(h)

Arity(k) == Len(FIELDS(k))

Read(k) ==
    {i \in 1 .. Len(wire.body) : i <= Arity(k)}

====
